---- MODULE Spec2Model ----
(***************************************************************************)
(* Model of web_scraping.py: the module-level script builds Init() and     *)
(* then FinnHub(...), whose constructor walks the tickers and, for each,   *)
(* runs req_new (wrapped by iterate_day), create_table, clean_table and    *)
(* lang_review (the last three wrapped by init_sql).                       *)
(*                                                                         *)
(* Calendar dates are day ordinals: datetime.strptime maps a date string   *)
(* to its ordinal, relativedelta(days=1) adds one, relativedelta(years=1)  *)
(* is YearDays.  SQL values are tagged character sequences so that trim()  *)
(* and the language detector are computed on the text itself.  Of the nine *)
(* columns only headline and datetime are read by the code after the       *)
(* insert, so a row carries its rowid and these two.                       *)
(***************************************************************************)
EXTENDS Integers, Sequences, FiniteSets, TLC

VARIABLES
  pc,            \* position of the script
  today,         \* datetime.now(), as a day ordinal
  start_date,    \* Init.start_date
  end_date,      \* Init.end_date
  tickers,       \* Init.tickers
  feed,          \* news items the remote API may serve in this run
  cap,           \* most items the remote API serves for one ticker
  dir_made,      \* Path(dir_path).mkdir has run
  nb_request,    \* FinnHub.nb_request
  js_data,       \* FinnHub.js_data
  k,             \* index in tickers of ticker_ in FinnHub.__init__'s loop
  item,          \* loop variable of iterate_day's wrapper
  date_,         \* date_ (and date_obj) of iterate_day's wrapper
  delta_date_,   \* delta_date_ of iterate_day's wrapper
  db,            \* the sqlite file: one table per ticker
  conn,          \* connections opened by init_sql and not closed
  cursor,        \* rows the cursor c of lang_review has yet to return
  list_,         \* list_ of lang_review
  fetched,       \* per ticker, the days requests.get was called for
  resp,          \* outcome of the requests.get of the current iteration
  sincePause,    \* requests.get calls since the last time.sleep
  pauses,        \* time.sleep calls so far
  errlog,        \* the iterations create_table printed for the ticker in hand
  pre,           \* the rows clean_table found in the table of the ticker in hand
  prelang,       \* the rows lang_review found in the table of the ticker in hand
  stage,         \* per ticker, the last method that returned
  failedAt       \* index of the ticker whose fetch failed first, or 0

vars == <<pc, today, start_date, end_date, tickers, feed, cap, dir_made,
          nb_request, js_data, k, item, date_, delta_date_, db, conn, cursor,
          list_, fetched, resp, sincePause, pauses, errlog, pre, prelang,
          stage, failedAt>>

(***************************************************************************)
(* Program constants and bounds                                            *)
(***************************************************************************)
max_call == 60
time_sleep == 60
YearDays == 365
Today == 1000

MaxTickers == 2
MaxDelta == 59
MaxItems == 3
PlainCap == 1
ShortDelta == 1

TickerIds == 1..MaxTickers

(***************************************************************************)
(* SQL values                                                              *)
(***************************************************************************)
NULL == [t |-> "null", s |-> <<>>]
Text(s) == [t |-> "text", s |-> s]
IntVal(s) == [t |-> "int", s |-> s]

Abs(n) == IF n < 0 THEN -n ELSE n

delta_date(s, e) == Abs(s - e)

RECURSIVE LTrim(_)
LTrim(s) == IF s # <<>> /\ Head(s) = "sp" THEN LTrim(Tail(s)) ELSE s

RECURSIVE RTrim(_)
RTrim(s) ==
  IF s # <<>> /\ s[Len(s)] = "sp" THEN RTrim(SubSeq(s, 1, Len(s) - 1)) ELSE s

\* SQLite's one-argument trim(X): removes spaces, and only spaces, from both
\* ends of X taken as text; trim(NULL) is NULL.
SqlTrim(v) == IF v.t = "null" THEN NULL ELSE Text(RTrim(LTrim(v.s)))

\* WHERE col IS NULL, without the trim
IsNullOnly(v) == v.t = "null"

\* WHERE col IS NULL OR trim(col) = ''
IsNullOrBlank(v) == v.t = "null" \/ SqlTrim(v) = Text(<<>>)

Letters == {"e", "f"}

\* langdetect.detect: raises on a non-string and on text without letters
\* ("No features in text"); otherwise names the language of the text.
detect(v) ==
  IF v.t # "text" \/ \A i \in 1..Len(v.s) : v.s[i] \notin Letters THEN "raise"
  ELSE IF \E i \in 1..Len(v.s) : v.s[i] = "f" THEN "fr"
  ELSE "en"

(***************************************************************************)
(* News items and the store                                                *)
(***************************************************************************)
\* A decoded element of the response body.  "news" is an object with the
\* nine fields; "malformed" is an object that lacks a field or holds a value
\* sqlite3 cannot bind; "key" is a key of a JSON object, which is what
\* `self.js_data += request_.json()` appends when the body is an object.
News(h, d) == [kind |-> "news", headline |-> h, datetime |-> d]
Malformed == [kind |-> "malformed", headline |-> NULL, datetime |-> NULL]
ErrorKey == [kind |-> "key", headline |-> NULL, datetime |-> NULL]

Stamp == IntVal(<<"1">>)
HeadlineValues ==
  {NULL, Text(<<"sp">>), Text(<<"tab">>), Text(<<"e">>), Text(<<"f">>)}
DatetimeValues == {NULL, Text(<<"sp">>), Stamp}

RichFeed ==
  {News(h, d) : h \in HeadlineValues, d \in DatetimeValues} \cup {Malformed}
PlainFeed == {News(Text(<<"e">>), Stamp), News(Text(<<"tab">>), Stamp)}
LongFeed == {News(Text(<<"e">>), Stamp)}

RECURSIVE SeqsUpTo(_, _)
SeqsUpTo(S, n) ==
  IF n = 0 THEN {<<>>}
  ELSE LET shorter == SeqsUpTo(S, n - 1)
       IN  shorter \cup {Append(q, x) : q \in {r \in shorter : Len(r) = n - 1},
                                        x \in S}

Row(id, it) == [rowid |-> id, headline |-> it.headline, datetime |-> it.datetime]

NoTable == [exists |-> FALSE, rows |-> <<>>]
Table(rows) == [exists |-> TRUE, rows |-> rows]

\* The sqlite file before the run: ticker 1 has a table left by an earlier
\* run, the other tickers have none.
StaleRow == [rowid |-> 1, headline |-> Text(<<"f">>), datetime |-> Stamp]
InitialDb == [t \in TickerIds |-> IF t = 1 THEN Table(<<StaleRow>>) ELSE NoTable]

\* c.execute('insert into ... values (?,...)', [data_[...], ...]) raises for an
\* element that is no object with the nine fields.
InsertRaises(it) == it.kind # "news"

\* the insert loop with the try around the whole loop: the first insert that
\* raises ends the batch
RECURSIVE InsertLoopAbort(_, _, _, _)
InsertLoopAbort(data, iteration, rows, log) ==
  IF iteration > Len(data) THEN [rows |-> rows, log |-> log]
  ELSE IF InsertRaises(data[iteration])
       THEN [rows |-> rows, log |-> Append(log, iteration)]
       ELSE InsertLoopAbort(data, iteration + 1,
                            Append(rows, Row(Len(rows) + 1, data[iteration])), log)

\* The insert loop of create_table from the iteration-th element on:
\* rows written so far and iterations printed so far.
RECURSIVE InsertLoop(_, _, _, _)
InsertLoop(data, iteration, rows, log) ==
  IF iteration > Len(data) THEN [rows |-> rows, log |-> log]
  ELSE IF InsertRaises(data[iteration])
       THEN InsertLoop(data, iteration + 1, rows, Append(log, iteration))
       ELSE InsertLoop(data, iteration + 1,
                       Append(rows, Row(Len(rows) + 1, data[iteration])), log)

\* DELETE ... WHERE headline IS NULL OR trim(headline) = ''
DeleteBlankHeadline(rows) ==
  SelectSeq(rows, LAMBDA r : ~IsNullOrBlank(r.headline))

\* DELETE ... WHERE datetime IS NULL OR trim(datetime) = ''
DeleteBlankDatetime(rows) ==
  SelectSeq(rows, LAMBDA r : ~IsNullOrBlank(r.datetime))

\* the same statement with MAX(rowid)
DeleteDuplicatesKeepLast(rows) ==
  SelectSeq(rows, LAMBDA r :
    \A i \in 1..Len(rows) :
      rows[i].headline = r.headline => r.rowid >= rows[i].rowid)

\* DELETE ... WHERE rowid NOT IN (select MIN(rowid) FROM ... GROUP BY headline)
DeleteDuplicates(rows) ==
  SelectSeq(rows, LAMBDA r :
    \A i \in 1..Len(rows) :
      rows[i].headline = r.headline => r.rowid <= rows[i].rowid)

CleanRows(rows) == DeleteDuplicates(DeleteBlankDatetime(DeleteBlankHeadline(rows)))

\* DELETE ... where headline in (?,...,?) bound to the values of lst
DeleteIn(rows, lst) ==
  SelectSeq(rows, LAMBDA r : \A i \in 1..Len(lst) : lst[i] # r.headline)

Headlines(rows) == [i \in 1..Len(rows) |-> rows[i].headline]

(***************************************************************************)
(* Runs                                                                    *)
(***************************************************************************)
TickerList(n) == [i \in 1..n |-> i]

\* The first start date the free API still accepts, the last one it refuses
\* and the one before that.
FreshStart == Today - YearDays + 1
StartDates == {FreshStart, Today - YearDays, Today - YearDays - 1}

\* Long windows over several tickers with a one-item feed, short windows in
\* either direction over several tickers with a feed that also serves a
\* headline the detector raises on, and a one-day window of one ticker with
\* the rich feed.
Scenarios ==
  {[tickers |-> TickerList(n), start |-> s, end |-> s + d,
    feed |-> LongFeed, cap |-> PlainCap] :
      n \in 1..MaxTickers, s \in StartDates, d \in 0..MaxDelta}
  \cup
  {[tickers |-> TickerList(n), start |-> s, end |-> s + d,
    feed |-> PlainFeed, cap |-> PlainCap] :
      n \in 1..MaxTickers, s \in StartDates, d \in 0..ShortDelta}
  \cup
  {[tickers |-> TickerList(n), start |-> s, end |-> s - d,
    feed |-> PlainFeed, cap |-> PlainCap] :
      n \in 1..MaxTickers, s \in StartDates, d \in 1..ShortDelta}
  \cup
  {[tickers |-> TickerList(1), start |-> FreshStart, end |-> FreshStart,
    feed |-> RichFeed, cap |-> MaxItems]}

Init ==
  /\ pc = "init"
  /\ today = Today
  /\ \E sc \in Scenarios :
       /\ tickers = sc.tickers
       /\ start_date = sc.start
       /\ end_date = sc.end
       /\ feed = sc.feed
       /\ cap = sc.cap
  /\ dir_made = FALSE
  /\ nb_request = 0
  /\ js_data = <<>>
  /\ k = 0
  /\ item = 0
  /\ date_ = 0
  /\ delta_date_ = 0
  /\ db = InitialDb
  /\ conn = 0
  /\ cursor = <<>>
  /\ list_ = <<>>
  /\ fetched = [t \in TickerIds |-> <<>>]
  /\ resp = "none"
  /\ sincePause = 0
  /\ pauses = 0
  /\ errlog = <<>>
  /\ pre = <<>>
  /\ prelang = <<>>
  /\ stage = [t \in TickerIds |-> "none"]
  /\ failedAt = 0

config == <<today, start_date, end_date, tickers, feed, cap>>
loopvars == <<item, date_, delta_date_>>
sqlvars == <<db, conn, cursor, list_, errlog, pre, prelang>>
ratevars == <<nb_request, sincePause, pauses>>

\* The table name self.ticker = ticker_ + '_' of the ticker in hand.
ticker == tickers[k]

(***************************************************************************)
(* Init.__init__                                                           *)
(***************************************************************************)
\* the comparison turned round
StartTooOldReversed == start_date >= today - YearDays

\* datetime.strptime(start_date) <= datetime.now() - relativedelta(years=1):
\* the start date is a midnight, so it is at or before the instant one year
\* ago exactly when its day is at or before the day one year ago.
StartTooOld == start_date <= today - YearDays

Configure ==
  /\ pc = "init"
  /\ dir_made' = TRUE
  /\ pc' = IF StartTooOld THEN "failed" ELSE "construct"
  /\ UNCHANGED <<config, loopvars, sqlvars, ratevars, js_data, k, fetched,
                 resp, stage, failedAt>>

(***************************************************************************)
(* FinnHub.__init__                                                        *)
(***************************************************************************)
Construct ==
  /\ pc = "construct"
  /\ nb_request' = 0
  /\ js_data' = <<>>
  /\ k' = 1
  /\ pc' = "ticker"
  /\ UNCHANGED <<config, loopvars, sqlvars, dir_made, sincePause, pauses,
                 fetched, resp, stage, failedAt>>

\* the head of the loop with self.nb_request = 0 in it
BeginTickerResets ==
  /\ pc = "ticker"
  /\ k <= Len(tickers)
  /\ js_data' = <<>>
  /\ delta_date_' = delta_date(start_date, end_date)
  /\ date_' = start_date
  /\ item' = 0
  /\ errlog' = <<>>
  /\ pre' = <<>>
  /\ prelang' = <<>>
  /\ nb_request' = 0
  /\ pc' = "loop"
  /\ UNCHANGED <<config, sincePause, pauses, dir_made, k, db, conn, cursor,
                 list_, fetched, resp, stage, failedAt>>

\* the head of the loop without self.js_data.clear()
BeginTickerNoClear ==
  /\ pc = "ticker"
  /\ k <= Len(tickers)
  /\ js_data' = js_data
  /\ delta_date_' = delta_date(start_date, end_date)
  /\ date_' = start_date
  /\ item' = 0
  /\ errlog' = <<>>
  /\ pre' = <<>>
  /\ prelang' = <<>>
  /\ pc' = "loop"
  /\ UNCHANGED <<config, ratevars, dir_made, k, db, conn, cursor, list_,
                 fetched, resp, stage, failedAt>>

\* for ticker_ in self.tickers: js_data.clear(); ...; self.req_new() up to the
\* loop of iterate_day's wrapper.
BeginTicker ==
  /\ pc = "ticker"
  /\ k <= Len(tickers)
  /\ js_data' = <<>>
  /\ delta_date_' = delta_date(start_date, end_date)
  /\ date_' = start_date
  /\ item' = 0
  /\ errlog' = <<>>
  /\ pre' = <<>>
  /\ prelang' = <<>>
  /\ pc' = "loop"
  /\ UNCHANGED <<config, ratevars, dir_made, k, db, conn, cursor, list_,
                 fetched, resp, stage, failedAt>>

Finish ==
  /\ pc = "ticker"
  /\ k > Len(tickers)
  /\ pc' = "done"
  /\ UNCHANGED <<config, loopvars, sqlvars, ratevars, dir_made, js_data, k,
                 fetched, resp, stage, failedAt>>

(***************************************************************************)
(* iterate_day's wrapper around req_new                                    *)
(***************************************************************************)
\* range(delta_date_): one day short
DayRangeShort == 0..(delta_date_ - 1)

\* range(delta_date_ + 1)
DayRange == 0..delta_date_

\* date_obj + relativedelta(days=1)
NextDay(d) == d + 1

\* the test against max_call itself
QuotaReachedLate == nb_request = max_call

\* self.nb_request == (self.max_call-1)
QuotaReached == nb_request = max_call - 1

\* the increment made twice in an iteration
RecordCallTwice ==
  /\ pc = "loop"
  /\ item \in DayRange
  /\ nb_request' = nb_request + 2
  /\ pc' = "fetch"
  /\ UNCHANGED <<config, loopvars, sqlvars, dir_made, js_data, k, fetched,
                 resp, sincePause, pauses, stage, failedAt>>

\* self.nb_request +=1, at the head of an iteration
RecordCall ==
  /\ pc = "loop"
  /\ item \in DayRange
  /\ nb_request' = nb_request + 1
  /\ pc' = "fetch"
  /\ UNCHANGED <<config, loopvars, sqlvars, dir_made, js_data, k, fetched,
                 resp, sincePause, pauses, stage, failedAt>>

\* req_new returns and the loop body goes on at clean_table
IngestDoneSkipsWrite ==
  /\ pc = "loop"
  /\ item \notin DayRange
  /\ stage' = [stage EXCEPT ![ticker] = "ingested"]
  /\ pc' = "clean"
  /\ UNCHANGED <<config, loopvars, sqlvars, ratevars, dir_made, js_data, k,
                 fetched, resp, failedAt>>

\* The range is exhausted: req_new returns to FinnHub.__init__.
IngestDone ==
  /\ pc = "loop"
  /\ item \notin DayRange
  /\ stage' = [stage EXCEPT ![ticker] = "ingested"]
  /\ pc' = "create"
  /\ UNCHANGED <<config, loopvars, sqlvars, ratevars, dir_made, js_data, k,
                 fetched, resp, failedAt>>

Requested == 
  /\ fetched' = [fetched EXCEPT ![ticker] = Append(@, date_)]
  /\ sincePause' = sincePause + 1

Failed == failedAt' = IF failedAt = 0 THEN k ELSE failedAt

\* req_new: the response has a success status and its body is a JSON array.
FetchReturn ==
  /\ pc = "fetch"
  /\ \E body \in SeqsUpTo(feed, cap - Len(js_data)) :
       js_data' = js_data \o body
  /\ Requested
  /\ resp' = "ok"
  /\ pc' = "advance"
  /\ UNCHANGED <<config, loopvars, sqlvars, dir_made, nb_request, pauses, k,
                 stage, failedAt>>

\* req_new: the response has a non-success status and its body is the JSON
\* object {"error": ...}.  requests.get does not raise on a status and the
\* code reads no status, so += extends js_data by the object's keys.
FetchErrorObject ==
  /\ pc = "fetch"
  /\ Len(js_data) < cap
  /\ js_data' = Append(js_data, ErrorKey)
  /\ Requested
  /\ Failed
  /\ resp' = "error"
  /\ pc' = "advance"
  /\ UNCHANGED <<config, loopvars, sqlvars, dir_made, nb_request, pauses, k,
                 stage>>

\* req_new: requests.get raises (transport failure), or the response has a
\* non-success status and a body that is no JSON, so request_.json() raises.
\* Nothing catches the exception: the script ends.
FetchRaise ==
  /\ pc = "fetch"
  /\ resp' \in {"transport", "error"}
  /\ Requested
  /\ Failed
  /\ pc' = "aborted"
  /\ UNCHANGED <<config, loopvars, sqlvars, dir_made, nb_request, pauses,
                 js_data, k, stage>>

\* the quota test made only when another iteration follows
AdvanceDayNoFinalPause ==
  /\ pc = "advance"
  /\ date_' = NextDay(date_)
  /\ resp' = "none"
  /\ IF QuotaReached /\ item + 1 \in DayRange
       THEN /\ pc' = "sleep"
            /\ pauses' = pauses + 1
            /\ item' = item
       ELSE /\ pc' = "loop"
            /\ pauses' = pauses
            /\ item' = item + 1
  /\ UNCHANGED <<config, sqlvars, dir_made, delta_date_, nb_request,
                 sincePause, js_data, k, fetched, stage, failedAt>>

\* The rest of the iteration: the next date, then the quota test.
AdvanceDay ==
  /\ pc = "advance"
  /\ date_' = NextDay(date_)
  /\ resp' = "none"
  /\ IF QuotaReached
       THEN /\ pc' = "sleep"
            /\ pauses' = pauses + 1
            /\ item' = item
       ELSE /\ pc' = "loop"
            /\ pauses' = pauses
            /\ item' = item + 1
  /\ UNCHANGED <<config, sqlvars, dir_made, delta_date_, nb_request,
                 sincePause, js_data, k, fetched, stage, failedAt>>

\* the sleep without the reset of self.nb_request
WakeNoReset ==
  /\ pc = "sleep"
  /\ nb_request' = nb_request
  /\ sincePause' = 0
  /\ item' = item + 1
  /\ pc' = "loop"
  /\ UNCHANGED <<config, sqlvars, dir_made, date_, delta_date_, pauses,
                 js_data, k, fetched, resp, stage, failedAt>>

\* time.sleep(self.time_sleep) returns; self.nb_request=0
Wake ==
  /\ pc = "sleep"
  /\ nb_request' = 0
  /\ sincePause' = 0
  /\ item' = item + 1
  /\ pc' = "loop"
  /\ UNCHANGED <<config, sqlvars, dir_made, date_, delta_date_, pauses,
                 js_data, k, fetched, resp, stage, failedAt>>

(***************************************************************************)
(* The methods wrapped by init_sql                                         *)
(***************************************************************************)
\* create_table: drop, create, add the columns, insert js_data in order,
\* printing the iteration of every insert that raises; commit and close.
CreateTable ==
  /\ pc = "create"
  /\ LET done == InsertLoop(js_data, 1, <<>>, <<>>)
     IN  /\ db' = [db EXCEPT ![ticker] = Table(done.rows)]
         /\ errlog' = done.log
  /\ stage' = [stage EXCEPT ![ticker] = "written"]
  /\ pc' = "clean"
  /\ UNCHANGED <<config, loopvars, ratevars, dir_made, js_data, k, conn,
                 cursor, list_, pre, prelang, fetched, resp, failedAt>>

\* clean_table: the three DELETE statements; commit and close.
CleanTable ==
  /\ pc = "clean"
  /\ pre' = db[ticker].rows
  /\ db' = [db EXCEPT ![ticker] = Table(CleanRows(db[ticker].rows))]
  /\ stage' = [stage EXCEPT ![ticker] = "cleaned"]
  /\ pc' = "lang"
  /\ UNCHANGED <<config, loopvars, ratevars, dir_made, js_data, k, conn,
                 cursor, list_, errlog, prelang, fetched, resp, failedAt>>

\* lang_review up to the loop: connect, list_ = [], the SELECT on cursor c.
LangSelect ==
  /\ pc = "lang"
  /\ conn' = conn + 1
  /\ list_' = <<>>
  /\ cursor' = Headlines(db[ticker].rows)
  /\ prelang' = db[ticker].rows
  /\ pc' = "scan"
  /\ UNCHANGED <<config, loopvars, ratevars, dir_made, js_data, k, db,
                 errlog, pre, fetched, resp, stage, failedAt>>

\* One iteration of `for item_ in c`: detect, collect, and (the DELETE is in
\* the loop body) c.execute(query, list_).  Executing on c replaces the
\* SELECT that c was iterating: a DELETE returns no rows.
LangStep ==
  /\ pc = "scan"
  /\ cursor # <<>>
  /\ detect(Head(cursor)) # "raise"
  /\ list_' = IF detect(Head(cursor)) # "en" THEN Append(list_, Head(cursor))
              ELSE list_
  /\ db' = [db EXCEPT ![ticker] = Table(DeleteIn(db[ticker].rows, list_'))]
  /\ cursor' = <<>>
  /\ UNCHANGED <<config, loopvars, ratevars, dir_made, js_data, k, conn,
                 errlog, pre, prelang, fetched, resp, stage, failedAt, pc>>

\* detect raises: nothing catches it, wrapper_ neither commits nor closes.
LangRaise ==
  /\ pc = "scan"
  /\ cursor # <<>>
  /\ detect(Head(cursor)) = "raise"
  /\ pc' = "crashed"
  /\ UNCHANGED <<config, loopvars, sqlvars, ratevars, dir_made, js_data, k,
                 fetched, resp, stage, failedAt>>

\* The cursor is exhausted: commit, close, and on to the next ticker.
LangReturn ==
  /\ pc = "scan"
  /\ cursor = <<>>
  /\ conn' = conn - 1
  /\ stage' = [stage EXCEPT ![ticker] = "filtered"]
  /\ k' = k + 1
  /\ pc' = "ticker"
  /\ UNCHANGED <<config, loopvars, ratevars, dir_made, js_data, db, cursor,
                 list_, errlog, pre, prelang, fetched, resp, failedAt>>

Next ==
  \/ Configure
  \/ Construct
  \/ BeginTicker
  \/ Finish
  \/ RecordCall
  \/ IngestDone
  \/ FetchReturn
  \/ FetchErrorObject
  \/ FetchRaise
  \/ AdvanceDay
  \/ Wake
  \/ CreateTable
  \/ CleanTable
  \/ LangSelect
  \/ LangStep
  \/ LangRaise
  \/ LangReturn

Spec == Init /\ [][Next]_vars

(***************************************************************************)
(* Properties                                                              *)
(***************************************************************************)
WindowLength ==
  (IF start_date <= end_date THEN end_date - start_date
   ELSE start_date - end_date) + 1

Halted == pc \in {"done", "aborted"}

\* C1: ingestion of a ticker calls the fetch once for each of the
\* N = |end - start| + 1 consecutive days that begin at the start date, in
\* ascending order: the days requested so far are always the first days of
\* that sequence, and are all N of them once req_new has returned.
C1_OneFetchPerDay ==
  \A t \in TickerIds :
    /\ Len(fetched[t]) <= WindowLength
    /\ fetched[t] = [i \in 1..Len(fetched[t]) |-> start_date + (i - 1)]
    /\ stage[t] # "none" => Len(fetched[t]) = WindowLength

C1_Witness ==
  /\ pc = "done"
  /\ Len(tickers) = 2
  /\ WindowLength = 3
  /\ fetched[2] = <<start_date, start_date + 1, start_date + 2>>

\* C2: the request counter stays within 0..quota-1, and at most quota-1
\* requests are issued between two pauses or before the first one.
C2_CounterWithinQuota ==
  /\ nb_request \in 0..(max_call - 1)
  /\ sincePause <= max_call - 1

C2_Witness ==
  /\ pc = "sleep"
  /\ k = 2
  /\ nb_request = max_call - 1
  /\ sincePause = max_call - 1

\* C3: an iteration that ends with the counter at quota-1 goes to the pause,
\* the pause is entered only with the counter at quota-1, the counter is 0
\* when the pause ends, and no call is recorded with the counter at quota-1.
C3_PauseAtQuota ==
  [][/\ (pc = "advance" /\ nb_request = max_call - 1) => pc' = "sleep"
     /\ (pc # "sleep" /\ pc' = "sleep") => nb_request = max_call - 1
     /\ pc = "sleep" => (pc' = "loop" /\ nb_request' = 0)
     /\ nb_request' > nb_request => nb_request < max_call - 1]_vars

C3_Witness ==
  /\ pc = "loop"
  /\ pauses = 1
  /\ nb_request = 0
  /\ sincePause = 0

\* C4: when a fetch of some ticker has failed and the run is over, every
\* later ticker of the list has gone through all four stages.
C4_LaterTickersProcessed ==
  (Halted /\ failedAt # 0) =>
    \A j \in (failedAt + 1)..Len(tickers) : stage[j] = "filtered"

\* C5: a fetch whose transport fails or whose response has a non-success
\* status raises and leaves the accumulation buffer as it was.
C5_FailureSurfaces ==
  [][(pc = "fetch" /\ resp' \in {"transport", "error"}) =>
       (pc' = "aborted" /\ js_data' = js_data)]_vars

\* clean_table has run on the table of ticker t
Cleaned(t) == stage[t] \in {"cleaned", "filtered"}

\* lang_review has just returned for ticker t
JustFiltered(t) == pc = "ticker" /\ k > 1 /\ tickers[k - 1] = t

\* clean_table has just returned for ticker t
JustCleaned(t) == pc = "lang" /\ tickers[k] = t

IsNull(v) == v.t = "null"
OnlyOf(v, chars) == v.t = "text" /\ \A i \in 1..Len(v.s) : v.s[i] \in chars
WhitespaceOnly(v) == OnlyOf(v, {"sp", "tab"})
SpacesOnly(v) == OnlyOf(v, {"sp"})

DistinctHeadlines(rows) ==
  \A i, j \in 1..Len(rows) : rows[i].headline = rows[j].headline => i = j

\* C6 as stated: after the Cleaner no row has a null or whitespace-only
\* headline or timestamp, and no two rows have the same headline.
C6_NoWhitespaceRows ==
  \A t \in TickerIds : Cleaned(t) =>
    /\ \A i \in 1..Len(db[t].rows) :
         /\ ~IsNull(db[t].rows[i].headline)
         /\ ~WhitespaceOnly(db[t].rows[i].headline)
         /\ ~IsNull(db[t].rows[i].datetime)
         /\ ~WhitespaceOnly(db[t].rows[i].datetime)
    /\ DistinctHeadlines(db[t].rows)

\* C6 as amended: after the Cleaner no row has a headline or a timestamp that
\* is null, empty or made of space characters only, and no two rows have the
\* same headline.
C6_NoBlankRows ==
  \A t \in TickerIds : Cleaned(t) =>
    /\ \A i \in 1..Len(db[t].rows) :
         /\ ~IsNull(db[t].rows[i].headline)
         /\ ~SpacesOnly(db[t].rows[i].headline)
         /\ ~IsNull(db[t].rows[i].datetime)
         /\ ~SpacesOnly(db[t].rows[i].datetime)
    /\ DistinctHeadlines(db[t].rows)

C6_Witness ==
  /\ JustCleaned(1)
  /\ Len(pre) = 3
  /\ SpacesOnly(pre[1].headline)
  /\ SpacesOnly(pre[2].datetime)
  /\ pre[3].headline = Text(<<"tab">>)
  /\ Len(db[1].rows) = 1

Blank(v) == IsNull(v) \/ SpacesOnly(v)

WithHeadline(rows, h) == {i \in 1..Len(rows) : rows[i].headline = h}

\* Of the rows of `before` numbered in `among`, those with headline h leave
\* exactly one row in `after`: the one of them with the lowest rowid.
FirstSurvives(before, among, after, h) ==
  LET same == WithHeadline(before, h) \cap among
  IN  /\ Cardinality(WithHeadline(after, h)) = 1
      /\ \A n \in WithHeadline(after, h) :
           /\ \E i \in same : before[i] = after[n]
           /\ \A i \in same : after[n].rowid <= before[i].rowid

\* C7 as stated: of any rows of the table given to the Cleaner that have the
\* same headline text, exactly one remains after pass 2, the first inserted.
C7_FirstOfDuplicatesSurvives ==
  \A t \in TickerIds : JustCleaned(t) =>
    \A i, j \in 1..Len(pre) :
      (i < j /\ pre[i].headline = pre[j].headline
             /\ ~Blank(pre[i].headline)) =>
        FirstSurvives(pre, 1..Len(pre), db[t].rows, pre[i].headline)

Kept(rows) ==
  {i \in 1..Len(rows) : ~Blank(rows[i].headline) /\ ~Blank(rows[i].datetime)}

\* C7 as amended: of any rows that pass 1 leaves in the table (headline and
\* timestamp neither null nor blank) and that have the same headline text,
\* exactly one remains after pass 2, the first inserted of them.
C7_FirstOfKeptDuplicatesSurvives ==
  \A t \in TickerIds : JustCleaned(t) =>
    \A i, j \in Kept(pre) :
      (i < j /\ pre[i].headline = pre[j].headline) =>
        FirstSurvives(pre, Kept(pre), db[t].rows, pre[i].headline)

C7_Witness ==
  /\ JustCleaned(1)
  /\ Len(pre) = 3
  /\ pre[1].headline = Text(<<"e">>) /\ Blank(pre[1].datetime)
  /\ pre[2].headline = Text(<<"e">>) /\ ~Blank(pre[2].datetime)
  /\ pre[3].headline = Text(<<"e">>) /\ ~Blank(pre[3].datetime)
  /\ db[1].rows = <<pre[2]>>

\* C8: after the Language Filter every row it found with a headline detected
\* as another language is gone and every row detected as English is there.
C8_OnlyTargetLanguageRemains ==
  \A t \in TickerIds : JustFiltered(t) =>
    \A i \in 1..Len(prelang) :
      /\ detect(prelang[i].headline) = "fr" =>
           \A n \in 1..Len(db[t].rows) : db[t].rows[n] # prelang[i]
      /\ detect(prelang[i].headline) = "en" =>
           \E n \in 1..Len(db[t].rows) : db[t].rows[n] = prelang[i]

BadPositions(data) == {i \in 1..Len(data) : data[i].kind # "news"}
GoodBefore(data, i) == Cardinality({j \in 1..i : j \notin BadPositions(data)})

\* C9: create_table writes the items of the batch in order: every item whose
\* insert raises is printed once, by its 1-based position, and every other
\* item is a row, in the order of the batch.
C9_WriteAllSkipsAndLogs ==
  pc = "clean" =>
    LET rows == db[ticker].rows
        log == errlog
        bad == BadPositions(js_data)
    IN  /\ {log[n] : n \in 1..Len(log)} = bad
        /\ Len(log) = Cardinality(bad)
        /\ \A m, n \in 1..Len(log) : m < n => log[m] < log[n]
        /\ Len(rows) = Len(js_data) - Cardinality(bad)
        /\ \A i \in 1..Len(js_data) : i \notin bad =>
             /\ rows[GoodBefore(js_data, i)].headline = js_data[i].headline
             /\ rows[GoodBefore(js_data, i)].datetime = js_data[i].datetime
             /\ rows[GoodBefore(js_data, i)].rowid = GoodBefore(js_data, i)

C9_Witness ==
  /\ pc = "clean"
  /\ Len(js_data) = 3
  /\ BadPositions(js_data) = {2}
  /\ errlog = <<2>>
  /\ Len(db[ticker].rows) = 2

\* C10: with a start date more than one year before today the run fails in
\* Init.__init__: no request is ever issued and the tables stay as they were.
C10_StaleStartFailsFirst ==
  start_date < today - YearDays =>
    /\ pc \in {"init", "failed"}
    /\ \A t \in TickerIds : fetched[t] = <<>>
    /\ db = InitialDb

C10_Witness ==
  /\ pc = "failed"
  /\ start_date < today - YearDays
  /\ dir_made


Untouched ==
  /\ \A t \in TickerIds : fetched[t] = <<>>
  /\ db = InitialDb

\* C11: with a start date after the end date the run fails before any
\* request is issued and before the store is touched.
C11_InvertedRangeFailsFirst ==
  start_date > end_date => (Untouched /\ pc # "done")

IsPrefix(p, q) == Len(p) <= Len(q) /\ SubSeq(q, 1, Len(p)) = p

FromBuffer(rows, data) ==
  /\ Len(rows) <= Len(data)
  /\ \A n \in 1..Len(rows) :
       \E i \in 1..Len(data) :
         /\ data[i].kind = "news"
         /\ rows[n].headline = data[i].headline
         /\ rows[n].datetime = data[i].datetime

\* C12: the buffer is empty when the ingestion of a ticker starts and from
\* then on only grows by what that ticker's fetches return, and the table
\* create_table leaves holds rows of that buffer only, none of an earlier
\* ticker or an earlier run.
C12_OnlyOwnItemsWritten ==
  [][/\ (pc = "ticker" /\ pc' = "loop") => js_data' = <<>>
     /\ (pc # "ticker" /\ js_data' # js_data) =>
          (pc = "fetch" /\ IsPrefix(js_data, js_data'))
     /\ pc = "create" => FromBuffer(db'[ticker].rows, js_data)]_vars

C12_Witness ==
  /\ pc = "clean"
  /\ k = 2
  /\ db[1].rows # <<>>
  /\ js_data = <<>>
  /\ db[2] = Table(<<>>)


\* The last stage the ticker in hand has finished when the script is at p.
StageBefore(p) ==
  CASE p \in {"ticker", "loop", "fetch", "advance", "sleep", "aborted"} -> "none"
    [] p = "create" -> "ingested"
    [] p = "clean" -> "written"
    [] p \in {"lang", "scan", "crashed"} -> "cleaned"
    [] OTHER -> "filtered"

\* C13: the tickers are taken in list order, one at a time: while the ticker
\* at position k is in hand every earlier ticker has finished all four
\* stages, no later ticker has started, and the ticker in hand has finished
\* exactly the stages that precede, in the order ingest, write, clean,
\* language filter, the one the script is at.
C13_StagesInOrder ==
  k >= 1 =>
    \A t \in 1..Len(tickers) :
      /\ t < k => stage[tickers[t]] = "filtered"
      /\ t > k => stage[tickers[t]] = "none"
      /\ t = k => stage[tickers[t]] = StageBefore(pc)

C13_Witness ==
  /\ pc = "scan"
  /\ k = 2
  /\ stage[1] = "filtered"
  /\ stage[2] = "cleaned"


\* C14: the request counter changes only by the increment at the head of an
\* iteration and by the reset to 0 in the constructor and after a pause; in
\* particular the steps from one ticker to the next leave it as it is.
C14_CounterSurvivesTickers ==
  [][/\ nb_request' # nb_request =>
          \/ pc = "loop" /\ nb_request' = nb_request + 1
          \/ pc \in {"sleep", "construct"} /\ nb_request' = 0
     /\ (pc = "loop" /\ pc' = "fetch" /\ item = 0 /\ k > 1 /\ pauses = 0) =>
          nb_request' = (k - 1) * WindowLength + 1]_vars

C14_Witness ==
  /\ pc = "fetch"
  /\ k = 2
  /\ item = 0
  /\ pauses = 0
  /\ nb_request = Len(fetched[1]) + 1
  /\ nb_request > 2


\* C15 as stated: the increment and, at quota-1, the pause and the reset are
\* over before the day's request is issued, so no request is issued with the
\* counter at quota-1.
C15_PauseBeforeFetch == pc = "fetch" => nb_request < max_call - 1

\* C15 as amended: in each iteration the counter is incremented exactly once
\* before the day's request is issued; the quota test, and at quota-1 the
\* pause and the reset, come after that request has returned and before the
\* next day's increment.
C15_IncrementBeforeFetchPauseAfter ==
  [][/\ (pc # "fetch" /\ pc' = "fetch") =>
          (nb_request' = nb_request + 1 /\ fetched' = fetched)
     /\ fetched' # fetched =>
          /\ pc = "fetch"
          /\ nb_request' = nb_request
          /\ Len(fetched'[ticker]) = item + 1
     /\ (pc # "sleep" /\ pc' = "sleep") =>
          /\ pc = "advance"
          /\ Len(fetched[ticker]) = item + 1
          /\ nb_request = max_call - 1
     /\ pc = "sleep" => (pc' = "loop" /\ item' = item + 1 /\ fetched' = fetched)]_vars

C15_Witness ==
  /\ pc = "sleep"
  /\ nb_request = max_call - 1
  /\ Len(fetched[ticker]) = item + 1
  /\ fetched[ticker][item + 1] = date_ - 1


\* C16: in the Language Filter every step of the scan takes the next row of
\* the result set and leaves the rest to be visited, and the table is not
\* changed while rows remain to be visited.
C16_DeleteAfterScan ==
  [][(pc = "scan" /\ pc' = "scan") =>
       /\ cursor' = Tail(cursor)
       /\ cursor' # <<>> => db' = db]_vars

Earlier(a, b) == IF a <= b THEN a ELSE b
Later(a, b) == IF a <= b THEN b ELSE a

\* C17: every day a request is issued for lies between the start date and
\* the end date, both included.
C17_FetchedDaysInWindow ==
  \A t \in TickerIds : \A i \in 1..Len(fetched[t]) :
    /\ Earlier(start_date, end_date) <= fetched[t][i]
    /\ fetched[t][i] <= Later(start_date, end_date)

\* C18: at most one connection is open, and none is left open once the
\* method that opened it is over, whether it returned or raised.
C18_ConnectionClosedOnEveryExit ==
  /\ conn <= 1
  /\ pc # "scan" => conn = 0


RECURSIVE RequestsUpTo(_)
RequestsUpTo(t) == IF t = 0 THEN 0 ELSE Len(fetched[t]) + RequestsUpTo(t - 1)

TotalRequests == RequestsUpTo(MaxTickers)

\* C19: when the ingestion of a ticker, or the run, is over after M requests
\* in all, floor(M / (quota - 1)) pauses have been taken: the pause that
\* falls due on the last request of a ticker or of the run is taken too.
C19_PausesPerRun ==
  pc \in {"create", "done"} => pauses = TotalRequests \div (max_call - 1)

C19_Witness ==
  /\ pc = "done"
  /\ failedAt = 0
  /\ TotalRequests = 2 * (max_call - 1)
  /\ pauses = 2


\* C20: a run in which every fetch has returned normally ends with every
\* ticker of the list through all four stages.
C20_EveryTickerCompletes ==
  (pc \in {"done", "crashed"} /\ failedAt = 0) =>
    /\ pc = "done"
    /\ \A t \in 1..Len(tickers) : stage[tickers[t]] = "filtered"

====
